---- MODULE Spec2Model ----
(***************************************************************************)
(* Model of the resource viewer Collector                                  *)
(* (internal/modules/overview/resourceviewer/collector.go).                *)
(*                                                                         *)
(* The Collector's fields are the variables, every public method is one   *)
(* action.  Strings are TLA+ strings, so that Sprintf("pods-%s", uid),     *)
(* strings.HasPrefix, strings.TrimPrefix and sort.Strings are computed on  *)
(* the characters, as the code does.  Go maps are functions on a finite    *)
(* domain of keys.                                                         *)
(***************************************************************************)
EXTENDS Integers, Sequences, FiniteSets, TLC

VARIABLES
    edges,        \* Collector.edges: parent id -> list of child ids
    nodes,        \* Collector.nodes: id -> component.Node
    groupPods,    \* Collector.groupPods
    podGroupIDs,  \* Collector.podGroupIDs: pod uid -> pod group id
    podStats,     \* Collector.podStats: controller uid -> number of pods seen
    podNodes,     \* Collector.podNodes: pod group id -> component.PodStatus
    ret,          \* the last call: its arguments, the collaborators' answers, its results
    processed,    \* history: objects whose node creation succeeded since the last Reset
    absorbed,     \* history: pods whose grouped node creation succeeded since construction
    calls,        \* number of calls made so far
    plan,         \* replay: the fixed calls and the fixed Status / link answers per object
    pending,      \* replay: calls of the plan not yet made in the current run
    phase,        \* replay: 0 = no replay, 1 = first order, 2 = second order, 3 = compared
    graph1,       \* replay: the graph the first order assembled
    conc          \* goroutines: the holder of Collector.mu, and per goroutine its
                  \* call, its position in it and the child its AddChild loop is at

collectorVars == <<edges, nodes, groupPods, podGroupIDs, podStats, podNodes>>
historyVars == <<processed, absorbed>>
replayVars == <<plan, pending, phase, graph1>>
vars == <<edges, nodes, groupPods, podGroupIDs, podStats, podNodes, ret,
          processed, absorbed, calls, plan, pending, phase, graph1, conc>>

---------------------------------------------------------------------------
(* Bounds *)

\* calls made on one collector
MaxCalls == 3

---------------------------------------------------------------------------
(* Go values *)

\* the nil error
Nil == "nil"

\* errors.Wrap / errors.Wrapf of github.com/pkg/errors: nil stays nil
Wrap(err, msg) == IF err = Nil THEN Nil ELSE msg \o ": " \o err

\* a Go map m[k] with the zero value for a missing key
Lookup(m, k, zero) == IF k \in DOMAIN m THEN m[k] ELSE zero

EmptyMap == <<>>

\* m[k] = v
Put(m, k, v) == (k :> v) @@ m

\* strings.HasPrefix
HasPrefix(s, prefix) ==
    /\ Len(s) >= Len(prefix)
    /\ SubSeq(s, 1, Len(prefix)) = prefix

\* strings.TrimPrefix
TrimPrefix(s, prefix) ==
    IF HasPrefix(s, prefix) THEN SubSeq(s, Len(prefix) + 1, Len(s)) ELSE s

\* the bytes that occur in the ids, in ascending order
Alphabet == "-0123456789abcdefghijklmnopqrstuvwxyz"

Ord(ch) == CHOOSE i \in 1..Len(Alphabet) : SubSeq(Alphabet, i, i) = ch

\* a < b for Go strings (bytewise lexicographic)
RECURSIVE StrLess(_, _)
StrLess(a, b) ==
    IF Len(b) = 0 THEN FALSE
    ELSE IF Len(a) = 0 THEN TRUE
    ELSE LET x == Ord(SubSeq(a, 1, 1))
             y == Ord(SubSeq(b, 1, 1))
         IN IF x # y THEN x < y
            ELSE StrLess(SubSeq(a, 2, Len(a)), SubSeq(b, 2, Len(b)))

RECURSIVE Insert(_, _)
Insert(sorted, s) ==
    IF sorted = <<>> THEN <<s>>
    ELSE IF StrLess(s, Head(sorted)) THEN <<s>> \o sorted
    ELSE <<Head(sorted)>> \o Insert(Tail(sorted), s)

\* sort.Strings
RECURSIVE SortStrings(_)
SortStrings(list) ==
    IF list = <<>> THEN <<>>
    ELSE Insert(SortStrings(SubSeq(list, 1, Len(list) - 1)), list[Len(list)])

\* dashStrings.Contains
Contains(s, list) == \E i \in 1..Len(list) : list[i] = s

Range(list) == {list[i] : i \in 1..Len(list)}

---------------------------------------------------------------------------
(* Cluster objects *)

NoController == [UID |-> "", Name |-> ""]

Object(key, meta, uid, name, group, version, kind, hasController, controller, hasReplicas, replicas) ==
    [key |-> key, meta |-> meta, UID |-> uid, Name |-> name,
     gvk |-> [Group |-> group, Version |-> version, Kind |-> kind],
     hasController |-> hasController, controller |-> controller,
     hasReplicas |-> hasReplicas, replicas |-> replicas]

\* Deployment d1
D1 == Object("D1", TRUE, "d1", "deploy", "apps", "v1", "Deployment",
             FALSE, NoController, FALSE, 0)
\* ReplicaSet r1 of d1, 2 replicas
R1 == Object("R1", TRUE, "r1", "rs", "apps", "v1", "ReplicaSet",
             TRUE, [UID |-> "d1", Name |-> "deploy"], TRUE, 2)
\* ReplicaSet r0 of d1, scaled to 0 replicas
R0 == Object("R0", TRUE, "r0", "rsold", "extensions", "v1beta1", "ReplicaSet",
             TRUE, [UID |-> "d1", Name |-> "deploy"], TRUE, 0)
\* ReplicaSet r9 without a declared replica count
RN == Object("RN", TRUE, "r9", "rsnone", "apps", "v1", "ReplicaSet",
             FALSE, NoController, FALSE, 0)
\* Pods p1 and p2 of r1
P1 == Object("P1", TRUE, "p1", "poda", "", "v1", "Pod",
             TRUE, [UID |-> "r1", Name |-> "rs"], FALSE, 0)
P2 == Object("P2", TRUE, "p2", "podb", "", "v1", "Pod",
             TRUE, [UID |-> "r1", Name |-> "rs"], FALSE, 0)
\* Pod p3 without controller
P3 == Object("P3", TRUE, "p3", "podc", "", "v1", "Pod",
             FALSE, NoController, FALSE, 0)
\* an object whose metadata cannot be read (not a metav1.Object)
X1 == Object("X1", FALSE, "", "", "", "v1", "Secret",
             FALSE, NoController, FALSE, 0)

AllObjects == {D1, R1, R0, RN, P1, P2, P3, X1}

Obj(key) == CHOOSE o \in AllObjects : o.key = key

\* the objects the traversal passes to Process
Objects == {R1, R0, RN, P1, P2, P3, X1}

\* the parents the traversal passes to AddChild
Parents == {R1, X1}

\* the child lists the traversal passes to AddChild: one child, two pods of one
\* controller, a child named twice, an unreadable child between readable ones
ChildLists ==
    { <<R1>>, <<P1>>, <<P1, P2>>, <<P1, R1, P1>>, <<P2, P1, P2>>, <<R1, X1, P1>> }

\* the ids Component is asked to select: a controlled pod, a pod without
\* controller, a replica set, a pod group, an id of no object
SelectedIDs == {"p1", "p3", "r1", "pods-r1", "zz"}

\* meta.NewAccessor().UID / Name, meta.Accessor
AccessorErr == "object does not implement the Object interfaces"

accessorUID(o) ==
    IF o.meta THEN [value |-> o.UID, err |-> Nil]
    ELSE [value |-> "", err |-> AccessorErr]

accessorName(o) ==
    IF o.meta THEN [value |-> o.Name, err |-> Nil]
    ELSE [value |-> "", err |-> AccessorErr]

\* GroupVersionKind.ToAPIVersionAndKind
APIVersionOf(gvk) ==
    IF gvk.Group = "" THEN gvk.Version ELSE gvk.Group \o "/" \o gvk.Version

\* GroupVersionKind.String
GVKString(gvk) == gvk.Group \o "/" \o gvk.Version \o ", Kind=" \o gvk.Kind

---------------------------------------------------------------------------
(* Collaborators: objectstatus.Status and link.Interface *)

\* a detail fragment of a status
Detail(d) == [kind |-> "detail", ref |-> d, count |-> 0]

NodeStatusOK == "ok"
NodeStatusWarning == "warning"
NodeStatusError == "error"

\* what objectstatus.Status may return: a status with its details, or an error
\* with the zero ObjectStatus
StatusResults ==
    { [err |-> Nil, Status |-> s, Details |-> <<Detail("detail " \o s)>>, path |-> ""] :
        s \in {NodeStatusOK, NodeStatusWarning, NodeStatusError} }
    \cup { [err |-> "status failed", Status |-> "", Details |-> <<>>, path |-> ""] }

\* the collaborator was not called
NotAsked == [err |-> Nil, Status |-> "", Details |-> <<>>, path |-> ""]

\* what link.ForObjectWithQuery may return
LinkOK == [err |-> Nil, Status |-> "", Details |-> <<>>, path |-> "/content"]
LinkFailed == [err |-> "link failed", Status |-> "", Details |-> <<>>, path |-> ""]
LinkResults == {LinkOK, LinkFailed}

---------------------------------------------------------------------------
(* component.PodStatus, component.Node, component.ResourceViewer *)

\* component.NewPodStatus: no pod summaries
NewPodStatus == EmptyMap

\* PodStatus.AddSummary: Config.Pods[name] = PodSummary{Details, Status}
AddSummary(podStatus, name, details, status) ==
    Put(podStatus, name, [Details |-> details, Status |-> status])

\* PodStatus.Status: the worst status of the summaries
PodStatusStatus(podStatus) ==
    IF \E n \in DOMAIN podStatus : podStatus[n].Status = NodeStatusError
    THEN NodeStatusError
    ELSE IF \E n \in DOMAIN podStatus : podStatus[n].Status = NodeStatusWarning
    THEN NodeStatusWarning
    ELSE NodeStatusOK

\* &podStatus in Node.Details: the view shares the Pods map kept in podNodes[id]
PodStatusRef(id) == [kind |-> "podStatus", ref |-> id, count |-> 0]

\* component.NewText(fmt.Sprintf("Pod count: %d", n))
PodCountText(n) == [kind |-> "text", ref |-> "Pod count", count |-> n]

NoNode ==
    [Name |-> "", APIVersion |-> "", Kind |-> "", Status |-> "", Details |-> <<>>,
     Path |-> ""]

\* component.NewResourceViewer
NewResourceViewer == [nodes |-> EmptyMap, edges |-> EmptyMap, selected |-> ""]

---------------------------------------------------------------------------
(* The Collector *)

\* isPod
isPod(o) == o.gvk.Group = "" /\ o.gvk.Version = "v1" /\ o.gvk.Kind = "Pod"

\* mutant: the group id is built from the controller's name
podGroupDetailsByName(o) ==
    IF ~o.meta THEN [id |-> "", name |-> "", err |-> AccessorErr]
    ELSE IF ~o.hasController THEN [id |-> o.UID, name |-> o.Name, err |-> Nil]
    ELSE [id |-> "pods-" \o o.controller.Name,
          name |-> o.controller.Name \o " pods", err |-> Nil]

\* podGroupDetails
podGroupDetails(o) ==
    IF ~o.meta THEN [id |-> "", name |-> "", err |-> AccessorErr]
    ELSE IF ~o.hasController THEN [id |-> o.UID, name |-> o.Name, err |-> Nil]
    ELSE [id |-> "pods-" \o o.controller.UID,
          name |-> o.controller.Name \o " pods", err |-> Nil]

\* isSkippedNode / skipNode
SkipNode == "skip node"
isSkippedNode(err) == err = SkipNode

\* a failed node creation: no id, no node, the maps as they are; askedStatus and
\* askedLink tell whether objectstatus.Status and the link generator were called
Failed(err, askedStatus, askedLink) ==
    [uid |-> "", node |-> NoNode, err |-> err, podNodes |-> podNodes,
     podGroupIDs |-> podGroupIDs, askedStatus |-> askedStatus, askedLink |-> askedLink]

\* c.podGroupIDs[string(uid)] = pgd.id
RecordPodGroupID(groupIDs, uid, id) == Put(groupIDs, uid, id)

\* mutant: the aggregate of the group is created before the status is asked for
createPodGroupNodeEager(o, st) ==
    LET pgd == podGroupDetails(o)
        uid == accessorUID(o)
        name == accessorName(o)
        aggregate == Lookup(podNodes, pgd.id, NewPodStatus)
    IN  IF pgd.err # Nil
        THEN Failed(Wrap(pgd.err, "getting pod group id for pod"), FALSE, FALSE)
        ELSE IF uid.err # Nil
        THEN Failed(Wrap(uid.err, "getting uid for pod"), FALSE, FALSE)
        ELSE IF name.err # Nil
        THEN Failed(Wrap(name.err, "getting name for pod"), FALSE, FALSE)
        ELSE IF st.err # Nil
        THEN [Failed(Wrap(st.err, "getting status for pod"), TRUE, FALSE)
                EXCEPT !.podNodes = Put(podNodes, pgd.id, aggregate)]
        ELSE
            LET podStatus == AddSummary(aggregate, name.value, st.Details, st.Status)
            IN  [uid |-> pgd.id,
                 node |-> [Name |-> pgd.name,
                           APIVersion |-> APIVersionOf(o.gvk),
                           Kind |-> o.gvk.Kind,
                           Status |-> PodStatusStatus(podStatus),
                           Details |-> <<PodStatusRef(pgd.id)>>,
                           Path |-> ""],
                 err |-> Nil,
                 podNodes |-> Put(podNodes, pgd.id, podStatus),
                 podGroupIDs |-> RecordPodGroupID(podGroupIDs, uid.value, pgd.id),
                 askedStatus |-> TRUE, askedLink |-> FALSE]

\* createPodGroupNode; st is what objectstatus.Status answers if it is called
createPodGroupNode(o, st) ==
    LET pgd == podGroupDetails(o)
        uid == accessorUID(o)
        name == accessorName(o)
    IN  IF pgd.err # Nil
        THEN Failed(Wrap(pgd.err, "getting pod group id for pod"), FALSE, FALSE)
        ELSE IF uid.err # Nil
        THEN Failed(Wrap(uid.err, "getting uid for pod"), FALSE, FALSE)
        ELSE IF name.err # Nil
        THEN Failed(Wrap(name.err, "getting name for pod"), FALSE, FALSE)
        ELSE IF st.err # Nil
        THEN Failed(Wrap(st.err, "getting status for pod"), TRUE, FALSE)
        ELSE
            LET podStatus == AddSummary(Lookup(podNodes, pgd.id, NewPodStatus),
                                        name.value, st.Details, st.Status)
            IN  [uid |-> pgd.id,
                 node |-> [Name |-> pgd.name,
                           APIVersion |-> APIVersionOf(o.gvk),
                           Kind |-> o.gvk.Kind,
                           Status |-> PodStatusStatus(podStatus),
                           Details |-> <<PodStatusRef(pgd.id)>>,
                           Path |-> ""],
                 err |-> Nil,
                 podNodes |-> Put(podNodes, pgd.id, podStatus),
                 podGroupIDs |-> RecordPodGroupID(podGroupIDs, uid.value, pgd.id),
                 askedStatus |-> TRUE, askedLink |-> FALSE]

\* the replica set check of createObjectNode
IsReplicaSet(o) ==
    (o.gvk.Group = "apps" \/ o.gvk.Group = "extensions") /\ o.gvk.Kind = "ReplicaSet"

\* mutant: a replica set scaled to zero is not skipped
SkipReplicasNegative(o) == ~o.hasReplicas \/ o.replicas < 0

\* replicas == nil || *replicas < 1
SkipReplicas(o) == ~o.hasReplicas \/ o.replicas < 1

\* mutant: the status of the failed answer is used as it is
StandaloneStatusRaw(st) == st.Status

\* nodeStatus of createObjectNode: OK when objectstatus.Status failed
StandaloneStatus(st) == IF st.err # Nil THEN NodeStatusOK ELSE st.Status

\* createObjectNode; st and lk are what objectstatus.Status and
\* link.ForObjectWithQuery answer if they are called
createObjectNode(o, st, lk) ==
    LET uid == accessorUID(o)
        name == accessorName(o)
    IN  IF IsReplicaSet(o) /\ SkipReplicas(o)
        THEN Failed(SkipNode, FALSE, FALSE)
        ELSE IF uid.err # Nil
        THEN Failed(uid.err, FALSE, FALSE)
        ELSE IF name.err # Nil
        THEN Failed("unable to get object name", FALSE, FALSE)
        ELSE IF lk.err # Nil
        THEN Failed(lk.err, TRUE, TRUE)
        ELSE
            [uid |-> uid.value,
             node |-> [Name |-> name.value,
                       APIVersion |-> IF IsReplicaSet(o) THEN "extensions/v1beta1"
                                      ELSE APIVersionOf(o.gvk),
                       Kind |-> o.gvk.Kind,
                       Status |-> StandaloneStatus(st),
                       Details |-> st.Details,
                       Path |-> lk.path],
             err |-> Nil,
             podNodes |-> podNodes,
             podGroupIDs |-> podGroupIDs,
             askedStatus |-> TRUE, askedLink |-> TRUE]

\* the error Process returns when node creation failed with err
ProcessError(o, err) ==
    IF isSkippedNode(err) THEN Nil
    ELSE LET name == accessorName(o)
         IN  IF name.err = Nil
             THEN Wrap(name.err, "processing unknown " \o GVKString(o.gvk))
             ELSE Wrap(name.err,
                       "processing " \o GVKString(o.gvk) \o " " \o name.value)

\* mutant: the node of a later call replaces the registered one
RegisterNodeOverwrite(ns, uid, node) == Put(ns, uid, node)

\* if _, ok := c.nodes[uid]; !ok { c.nodes[uid] = node }
RegisterNode(ns, uid, node) == IF uid \in DOMAIN ns THEN ns ELSE Put(ns, uid, node)

\* mutant: only the first pod of a controller is counted
CountPodOnce(stats, o) ==
    IF o.hasController THEN Put(stats, o.controller.UID, 1) ELSE stats

\* c.podStats[string(ownerReference.UID)]++
CountPod(stats, o) ==
    IF o.hasController
    THEN Put(stats, o.controller.UID, Lookup(stats, o.controller.UID, 0) + 1)
    ELSE stats

NoCall ==
    [op |-> "NewCollector", obj |-> "", children |-> <<>>, selected |-> "",
     status |-> NotAsked, link |-> NotAsked, err |-> Nil, created |-> FALSE,
     rv |-> NewResourceViewer]

\* Collector.Process; st and lk are the answers of objectstatus.Status and of the
\* link generator to this call, NotAsked when the call does not reach them
Process(o, st, lk) ==
    LET grouped == isPod(o) /\ groupPods
        r == IF grouped THEN createPodGroupNode(o, st) ELSE createObjectNode(o, st, lk)
    IN  /\ r.askedStatus = (st # NotAsked)
        /\ r.askedLink = (lk # NotAsked)
        /\ podStats' = IF grouped THEN CountPod(podStats, o) ELSE podStats
        /\ podNodes' = r.podNodes
        /\ podGroupIDs' = r.podGroupIDs
        /\ nodes' = IF r.err = Nil THEN RegisterNode(nodes, r.uid, r.node) ELSE nodes
        /\ ret' = [NoCall EXCEPT !.op = "Process", !.obj = o.key,
                                 !.status = st, !.link = lk,
                                 !.created = (r.err = Nil),
                                 !.err = IF r.err = Nil THEN Nil
                                         ELSE ProcessError(o, r.err)]
        /\ processed' = IF r.err = Nil THEN processed \cup {o.key} ELSE processed
        /\ absorbed' = IF r.err = Nil /\ grouped THEN absorbed \cup {o.key}
                       ELSE absorbed
        /\ UNCHANGED <<edges, groupPods>>

\* mutant: the edge of a pod goes to the pod itself
childIDOwn(child) == accessorUID(child)

\* mutant: the edge of a pod goes to its group whatever the grouping setting is
childIDAlwaysGrouped(child) ==
    IF isPod(child)
    THEN LET pgd == podGroupDetails(child)
         IN  [value |-> pgd.id, err |-> Wrap(pgd.err, "find pod group id for pod")]
    ELSE accessorUID(child)

\* the id AddChild uses for a child
childID(child) ==
    IF isPod(child) /\ groupPods
    THEN LET pgd == podGroupDetails(child)
         IN  [value |-> pgd.id, err |-> Wrap(pgd.err, "find pod group id for pod")]
    ELSE accessorUID(child)

\* mutant: the child is appended without looking for it in the list
AppendEdgeAlways(list, cid) == Append(list, cid)

\* if !dashStrings.Contains(cid, c.edges[pid]) { c.edges[pid] = append(c.edges[pid], cid) }
AppendEdge(list, cid) == IF Contains(cid, list) THEN list ELSE Append(list, cid)

\* mutant: the loop goes on after a child whose id cannot be read
RECURSIVE AddChildrenSkipFailed(_, _)
AddChildrenSkipFailed(list, children) ==
    IF children = <<>> THEN [list |-> list, err |-> Nil]
    ELSE LET cid == childID(Head(children))
             rest == AddChildrenSkipFailed(IF cid.err # Nil THEN list
                                           ELSE AppendEdge(list, cid.value),
                                           Tail(children))
         IN  IF cid.err # Nil THEN [rest EXCEPT !.err = cid.err] ELSE rest

\* the loop of AddChild over the children: the parent's edge list and the error
\* the loop ends with
RECURSIVE AddChildren(_, _)
AddChildren(list, children) ==
    IF children = <<>> THEN [list |-> list, err |-> Nil]
    ELSE LET cid == childID(Head(children))
         IN  IF cid.err # Nil THEN [list |-> list, err |-> cid.err]
             ELSE AddChildren(AppendEdge(list, cid.value), Tail(children))

\* Collector.AddChild
AddChild(parent, children) ==
    LET uid == accessorUID(parent)
        r == AddChildren(Lookup(edges, uid.value, <<>>), children)
    IN  /\ edges' = IF uid.err # Nil \/ r.list = <<>> THEN edges
                    ELSE Put(edges, uid.value, r.list)
        /\ ret' = [NoCall EXCEPT !.op = "AddChild", !.obj = parent.key,
                                 !.children = [i \in 1..Len(children) |-> children[i].key],
                                 !.err = IF uid.err # Nil THEN uid.err ELSE r.err]
        /\ UNCHANGED <<nodes, groupPods, podGroupIDs, podStats, podNodes>>
        /\ UNCHANGED historyVars

\* the node Component adds to the graph for nodeID: a pod group gets its pod count
AnnotatedNode(nodeID) ==
    IF HasPrefix(nodeID, "pods-")
    THEN [nodes[nodeID] EXCEPT !.Details =
            Append(@, PodCountText(Lookup(podStats, TrimPrefix(nodeID, "pods-"), 0)))]
    ELSE nodes[nodeID]

\* mutant: every recorded edge is added
EdgeEmittedAlways(nodeID, edgeID, nodeIDs) == TRUE

\* if dashStrings.Contains(edgeID, nodeIDs): the edge nodeID -> edgeID is added
EdgeEmitted(nodeID, edgeID, nodeIDs) == edgeID \in nodeIDs

\* ResourceViewer.AddEdge for the sorted edges of one parent
EdgesOf(nodeID, sorted, nodeIDs) ==
    LET kept == SelectSeq(sorted, LAMBDA edgeID : EdgeEmitted(nodeID, edgeID, nodeIDs))
    IN  [i \in 1..Len(kept) |-> [node |-> kept[i], type |-> "explicit"]]

\* mutant: the selection is never mapped to a pod group
ResolveSelectedRaw(selected) == selected

\* podGroupID, ok := c.podGroupIDs[selected]; if ok { selected = podGroupID }
ResolveSelected(selected) ==
    IF selected \in DOMAIN podGroupIDs THEN podGroupIDs[selected] ELSE selected

\* the ResourceViewer Component builds; sorted is c.edges after sort.Strings
ComponentGraph(selected, sorted) ==
    LET nodeIDs == DOMAIN nodes
        withEdges == {p \in DOMAIN sorted : EdgesOf(p, sorted[p], nodeIDs) # <<>>}
    IN  [nodes |-> [id \in nodeIDs |-> AnnotatedNode(id)],
         edges |-> [p \in withEdges |-> EdgesOf(p, sorted[p], nodeIDs)],
         selected |-> ResolveSelected(selected)]

\* Collector.Component; sort.Strings sorts the lists of c.edges in place
Component(selected) ==
    LET sorted == [p \in DOMAIN edges |-> SortStrings(edges[p])]
    IN  /\ edges' = sorted
        /\ ret' = [NoCall EXCEPT !.op = "Component", !.selected = selected,
                                 !.rv = ComponentGraph(selected, sorted)]
        /\ UNCHANGED <<nodes, groupPods, podGroupIDs, podStats, podNodes>>
        /\ UNCHANGED historyVars

\* Collector.Reset
Reset ==
    /\ edges' = EmptyMap
    /\ nodes' = EmptyMap
    /\ ret' = [NoCall EXCEPT !.op = "Reset"]
    /\ processed' = {}
    /\ UNCHANGED <<groupPods, podGroupIDs, podStats, podNodes, absorbed>>

\* NewCollector with or without the option that turns pod grouping off; it ends
\* with Reset
NewCollector(grouping) ==
    /\ podStats = EmptyMap
    /\ groupPods = grouping
    /\ podGroupIDs = EmptyMap
    /\ podNodes = EmptyMap
    /\ edges = EmptyMap
    /\ nodes = EmptyMap
    /\ ret = NoCall
    /\ processed = {}
    /\ absorbed = {}
    /\ calls = 0

---------------------------------------------------------------------------
(* Any calls in any order *)

NoPlan == [calls |-> {}, status |-> EmptyMap, link |-> EmptyMap, selected |-> ""]

\* no goroutines: one caller makes one call after the other
NoGoroutines == [mu |-> "", pc |-> EmptyMap, call |-> EmptyMap, i |-> EmptyMap]

NoReplay ==
    /\ conc = NoGoroutines
    /\ plan = NoPlan
    /\ pending = {}
    /\ phase = 0
    /\ graph1 = NewResourceViewer

Init ==
    /\ \E grouping \in BOOLEAN : NewCollector(grouping)
    /\ NoReplay

CallProcess ==
    \E o \in Objects, st \in StatusResults \cup {NotAsked},
       lk \in LinkResults \cup {NotAsked} :
        Process(o, st, lk)

CallAddChild ==
    \E parent \in Parents, children \in ChildLists :
        AddChild(parent, children)

CallComponent == \E selected \in SelectedIDs : Component(selected)

CallReset == Reset

Next ==
    /\ calls < MaxCalls
    /\ calls' = calls + 1
    /\ UNCHANGED replayVars
    /\ UNCHANGED conc
    /\ \/ CallProcess
       \/ CallAddChild
       \/ CallComponent
       \/ CallReset

Spec == Init /\ [][Next]_vars

---------------------------------------------------------------------------
(* The same calls in two orders: a fixed set of Process and AddChild calls, with *)
(* a fixed Status and link answer per object, is made on a fresh collector in    *)
(* any order and assembled; then again, in any order, on another fresh collector *)

ProcessCall(o) == [op |-> "Process", obj |-> o.key, children |-> <<>>]
AddChildCall(parent, children) ==
    [op |-> "AddChild", obj |-> parent.key,
     children |-> [i \in 1..Len(children) |-> children[i].key]]

\* the traversal of Deployment d1: its replica set r1 and the pods p1, p2 of r1
TraversalCalls ==
    { ProcessCall(D1), ProcessCall(R1), ProcessCall(P1), ProcessCall(P2),
      AddChildCall(D1, <<R1>>), AddChildCall(R1, <<P1>>), AddChildCall(R1, <<P2>>) }

\* the fixed answers: d1 and r1 are healthy, the pods are in any condition and
\* every link resolves
Plans ==
    { [calls |-> TraversalCalls, status |-> st, link |-> lk, selected |-> sel] :
        st \in { f \in [{"D1", "R1", "P1", "P2"} -> StatusResults] :
                    f["D1"].Status = NodeStatusOK /\ f["R1"].Status = NodeStatusOK },
        lk \in { [k \in {"D1", "R1", "P1", "P2"} |-> LinkOK] },
        sel \in {"p1"} }

InitReplay ==
    /\ \E grouping \in BOOLEAN : NewCollector(grouping)
    /\ plan \in Plans
    /\ pending = plan.calls
    /\ phase = 1
    /\ graph1 = NewResourceViewer
    /\ conc = NoGoroutines

\* one pending call of the plan
ReplayCall ==
    /\ phase \in {1, 2}
    /\ \E call \in pending :
        /\ pending' = pending \ {call}
        /\ \/ /\ call.op = "Process"
              /\ \E st \in {plan.status[call.obj], NotAsked},
                    lk \in {plan.link[call.obj], NotAsked} :
                    Process(Obj(call.obj), st, lk)
           \/ /\ call.op = "AddChild"
              /\ AddChild(Obj(call.obj),
                          [i \in 1..Len(call.children) |-> Obj(call.children[i])])
    /\ calls' = calls + 1
    /\ UNCHANGED <<plan, phase, graph1, conc>>

\* all calls made: the graph is assembled, and the first graph is kept
ReplayComponent ==
    /\ phase \in {1, 2}
    /\ pending = {}
    /\ ret.op # "Component"
    /\ Component(plan.selected)
    /\ graph1' = IF phase = 1 THEN ret'.rv ELSE graph1
    /\ phase' = IF phase = 1 THEN 1 ELSE 3
    /\ calls' = calls + 1
    /\ UNCHANGED <<plan, pending, conc>>

\* the second run: a collector constructed as the first was
ReplayNewCollector ==
    /\ phase = 1
    /\ pending = {}
    /\ ret.op = "Component"
    /\ podStats' = EmptyMap
    /\ podGroupIDs' = EmptyMap
    /\ podNodes' = EmptyMap
    /\ edges' = EmptyMap
    /\ nodes' = EmptyMap
    /\ ret' = NoCall
    /\ processed' = {}
    /\ absorbed' = {}
    /\ calls' = 0
    /\ pending' = plan.calls
    /\ phase' = 2
    /\ UNCHANGED <<groupPods, plan, graph1, conc>>

NextReplay ==
    \/ ReplayCall
    \/ ReplayComponent
    \/ ReplayNewCollector

SpecReplay == InitReplay /\ [][NextReplay]_vars

\* what a graph shows: per node its name, kind and status, the edges, the selection
GraphView(rv) ==
    [nodes |-> [id \in DOMAIN rv.nodes |->
                    [Name |-> rv.nodes[id].Name, Kind |-> rv.nodes[id].Kind,
                     Status |-> rv.nodes[id].Status]],
     edges |-> rv.edges,
     selected |-> rv.selected]

---------------------------------------------------------------------------
(* Properties *)

\* o takes the pod group path of Process and AddChild
Grouped(o) == o.gvk.Kind = "Pod" /\ o.gvk.Group = "" /\ groupPods

\* the id a successful Process(o) registers its node under
NodeIDOf(o) ==
    IF Grouped(o) /\ o.hasController THEN "pods-" \o o.controller.UID ELSE o.UID

\* the ids registered by the successful Process calls since the last Reset
RegisteredIDs == {NodeIDOf(Obj(k)) : k \in processed}

\* the pods of controller uid among the objects named in keys
PodsOf(uid, keys) ==
    {k \in keys : Obj(k).gvk.Kind = "Pod" /\ Obj(k).hasController
                    /\ Obj(k).controller.UID = uid}

ControllerUIDs == {o.controller.UID : o \in {x \in AllObjects : x.hasController}}

\* the replica sets Process skips: no declared replica count, or one below 1
SkippedReplicaSets ==
    {o \in AllObjects : o.gvk.Kind = "ReplicaSet"
                        /\ o.gvk.Group \in {"apps", "extensions"}
                        /\ (~o.hasReplicas \/ o.replicas <= 0)}

\* the children of the edges of a graph
EdgePairs(rv) ==
    UNION { {<<p, rv.edges[p][i].node>> : i \in 1..Len(rv.edges[p])} :
            p \in DOMAIN rv.edges }

\* the recorded edges of an edge map
RecordedPairs(es) ==
    UNION { {<<p, es[p][i]>> : i \in 1..Len(es[p])} : p \in DOMAIN es }

\* C1: a Process call never changes or removes a registered node and adds at
\* most one; the node a standalone object is first registered with carries the
\* status and details its Status answer gave; and the assembled graph holds
\* that one node, as registered, under the id
C1_FirstNodeKept ==
    [][ /\ ret'.op = "Process" =>
            /\ \A id \in DOMAIN nodes : id \in DOMAIN nodes' /\ nodes'[id] = nodes[id]
            /\ Cardinality(DOMAIN nodes') <= Cardinality(DOMAIN nodes) + 1
            /\ LET o == Obj(ret'.obj)
               IN  ret'.created /\ ~Grouped(o) /\ o.UID \notin DOMAIN nodes
                   /\ ret'.status.err = Nil
                   => /\ o.UID \in DOMAIN nodes'
                      /\ nodes'[o.UID].Status = ret'.status.Status
                      /\ nodes'[o.UID].Details = ret'.status.Details
        /\ ret'.op = "Component" =>
            /\ DOMAIN ret'.rv.nodes = DOMAIN nodes
            /\ \A k \in processed : ~Grouped(Obj(k)) =>
                    /\ Obj(k).UID \in DOMAIN ret'.rv.nodes
                    /\ ret'.rv.nodes[Obj(k).UID] = nodes[Obj(k).UID] ]_vars

\* C1 witness: a standalone object was processed again with another status, and
\* its node still carries the first one
C1_Witness ==
    /\ ret.op = "Process" /\ ret.created /\ ~Grouped(Obj(ret.obj))
    /\ ret.status.err = Nil
    /\ Obj(ret.obj).UID \in DOMAIN nodes
    /\ nodes[Obj(ret.obj).UID].Status # ret.status.Status

\* C2: with grouping, the pods of one controller that were processed with
\* success have one node, under "pods-<controller uid>", and none of their own;
\* the group's aggregate has one summary per such pod; the controller's pod
\* count, and the "Pod count" detail of the assembled group node, is at least
\* their number
C2_OneGroupNode ==
    groupPods =>
        \A uid \in ControllerUIDs :
            LET gid == "pods-" \o uid
                now == PodsOf(uid, processed)
                ever == PodsOf(uid, absorbed)
            IN  /\ now # {} =>
                    /\ gid \in DOMAIN nodes
                    /\ \A k \in now : Obj(k).UID \notin DOMAIN nodes
                /\ ever # {} =>
                    /\ gid \in DOMAIN podNodes
                    /\ Cardinality(DOMAIN podNodes[gid]) = Cardinality(ever)
                /\ Lookup(podStats, uid, 0) >= Cardinality(ever)
                /\ ret.op = "Component" /\ now # {} =>
                    /\ gid \in DOMAIN ret.rv.nodes
                    /\ \A k \in now : Obj(k).UID \notin DOMAIN ret.rv.nodes
                    /\ LET details == ret.rv.nodes[gid].Details
                       IN  /\ details[Len(details)].ref = "Pod count"
                           /\ details[Len(details)].count >= Cardinality(ever)

\* C2 witness: both pods of r1 were processed and the graph was assembled
C2_Witness ==
    /\ groupPods
    /\ ret.op = "Component"
    /\ {"P1", "P2"} \subseteq processed
    /\ Cardinality(DOMAIN podNodes["pods-r1"]) = 2
    /\ "pods-r1" \in DOMAIN ret.rv.nodes

\* C3: after a successful Process of a grouped pod, the status of the group's
\* node is the status derived from the group's aggregate
C3_GroupStatusFresh ==
    ret.op = "Process" /\ ret.created /\ Grouped(Obj(ret.obj)) =>
        LET gid == NodeIDOf(Obj(ret.obj))
        IN  nodes[gid].Status = PodStatusStatus(podNodes[gid])

\* C4: the second order of the calls assembles the graph the first order did
C4_OrderIndependent ==
    phase = 3 => GraphView(ret.rv) = GraphView(graph1)

\* C5: both ends of every edge of an assembled graph are nodes of the graph
C5_EdgeEndpointsRegistered ==
    ret.op = "Component" =>
        \A e \in EdgePairs(ret.rv) :
            e[1] \in DOMAIN ret.rv.nodes /\ e[2] \in DOMAIN ret.rv.nodes

\* C6: Component returns no error, keeps every recorded edge recorded, and
\* emits a recorded edge parent -> c exactly if a successful Process call since
\* the last Reset registered a node under c
C6_UnregisteredChildDropped ==
    [][ ret'.op = "Component" =>
            /\ ret'.err = Nil
            /\ DOMAIN edges' = DOMAIN edges
            /\ \A p \in DOMAIN edges : Range(edges'[p]) = Range(edges[p])
            /\ EdgePairs(ret'.rv) =
                    {e \in RecordedPairs(edges) : e[2] \in RegisteredIDs} ]_vars

\* C6 witness: a graph was assembled while an edge to an unregistered child and
\* an edge to a registered child were recorded
C6_Witness ==
    /\ ret.op = "Component"
    /\ \E p \in DOMAIN edges :
        /\ \E c \in Range(edges[p]) : c \notin RegisteredIDs
        /\ \E c \in Range(edges[p]) : <<p, c>> \in EdgePairs(ret.rv)

\* C7: no edge list names a child twice
C7_NoDuplicateEdges ==
    \A p \in DOMAIN edges :
        \A i, j \in 1..Len(edges[p]) : i # j => edges[p][i] # edges[p][j]

\* C7 witness: AddChild(parent, c1, c2, c1) left two edges from the parent
C7_Witness ==
    /\ ret.op = "AddChild" /\ ret.err = Nil
    /\ ret.obj = "R1" /\ ret.children = <<"P1", "R1", "P1">>
    /\ Len(edges["r1"]) = 2

\* C8: the selected id of an assembled graph is the pod group of the selected
\* pod if a successful grouped Process call absorbed that pod, and the id that
\* was asked for otherwise
C8_SelectedResolved ==
    ret.op = "Component" =>
        IF \E k \in absorbed : Obj(k).UID = ret.selected
        THEN \A k \in absorbed : Obj(k).UID = ret.selected =>
                ret.rv.selected = NodeIDOf(Obj(k))
        ELSE ret.rv.selected = ret.selected

\* C8 witness: pod p1 was absorbed into the group of r1 and then selected
C8_Witness ==
    /\ ret.op = "Component" /\ ret.selected = "p1"
    /\ "P1" \in absorbed
    /\ ret.rv.selected = "pods-r1"

\* C9: Process of a replica set without replicas returns no error and no such
\* replica set ever has a node
C9_ReplicaSetSkipped ==
    /\ \A o \in SkippedReplicaSets : o.UID \notin DOMAIN nodes
    /\ ret.op = "Process" /\ Obj(ret.obj) \in SkippedReplicaSets =>
            ret.err = Nil /\ ~ret.created

\* C9 witness: a replica set scaled to zero was processed, not as the first call
C9_Witness ==
    /\ ret.op = "Process" /\ ret.obj = "R0"
    /\ calls >= 2

\* C10: a Process call whose node creation failed, other than by skipping a
\* replica set, returns an error
C10_FatalErrorReturned ==
    ret.op = "Process" /\ ~ret.created /\ Obj(ret.obj) \notin SkippedReplicaSets =>
        ret.err # Nil


\* C11: a Process call of a standalone object whose Status answer is an error and
\* whose link resolves returns no error and, if the id had no node, registers a
\* node with status OK and no details
C11_StatusFailureTolerated ==
    [][ LET o == Obj(ret'.obj)
        IN  /\ ret'.op = "Process"
            /\ ~Grouped(o)
            /\ ret'.status # NotAsked /\ ret'.status.err # Nil
            /\ ret'.link # NotAsked /\ ret'.link.err = Nil
            => /\ ret'.err = Nil
               /\ o.UID \in DOMAIN nodes'
               /\ o.UID \notin DOMAIN nodes =>
                    /\ nodes'[o.UID].Status = "ok"
                    /\ nodes'[o.UID].Details = <<>>
                    /\ nodes'[o.UID].Name = o.Name ]_vars

\* C11 witness: a replica set was registered by a call whose Status answer failed
C11_Witness ==
    /\ ret.op = "Process" /\ ret.obj = "R1" /\ ret.created
    /\ ret.status.err # Nil /\ ret.status # NotAsked
    /\ "r1" \in DOMAIN nodes /\ nodes["r1"].Status = "ok" /\ nodes["r1"].Details = <<>>


\* C12: after Reset the pod group aggregates, the pod counts and the mapping
\* from pods to pod groups are empty, as the nodes and the edges are
C12_ResetClearsAll ==
    ret.op = "Reset" =>
        /\ nodes = EmptyMap /\ edges = EmptyMap
        /\ podNodes = EmptyMap /\ podStats = EmptyMap /\ podGroupIDs = EmptyMap


---------------------------------------------------------------------------
(* Two goroutines, each making one call on the same collector.  Process,   *)
(* AddChild and Component lock Collector.mu; Reset does not.               *)

Goroutines == {"g1", "g2"}

ResetCall == [op |-> "Reset", obj |-> "", children |-> <<>>]
ComponentCall == [op |-> "Component", obj |-> "p1", children |-> <<>>]

\* the calls a goroutine may make
ConcurrentCalls ==
    { AddChildCall(R1, <<P1, R1, P1>>), AddChildCall(R1, <<R1, X1, P1>>),
      AddChildCall(X1, <<R1>>), ProcessCall(R1), ProcessCall(P1),
      ResetCall, ComponentCall }

InitConcurrent ==
    /\ \E grouping \in BOOLEAN : NewCollector(grouping)
    /\ plan = NoPlan
    /\ pending = {}
    /\ phase = 0
    /\ graph1 = NewResourceViewer
    /\ \E c \in [Goroutines -> ConcurrentCalls] :
            conc = [mu |-> "", pc |-> [g \in Goroutines |-> "start"], call |-> c,
                    i |-> [g \in Goroutines |-> 1]]

\* c.mu.Lock()
Lock(g) ==
    /\ conc.pc[g] = "start"
    /\ conc.call[g].op # "Reset"
    /\ conc.mu = ""
    /\ conc' = [conc EXCEPT !.mu = g, !.pc[g] = "locked"]
    /\ UNCHANGED <<collectorVars, ret, historyVars, calls, replayVars>>

\* defer c.mu.Unlock()
Unlock(g) ==
    /\ conc.pc[g] = "unlock"
    /\ conc' = [conc EXCEPT !.mu = "", !.pc[g] = "done"]
    /\ UNCHANGED <<collectorVars, ret, historyVars, calls, replayVars>>

\* the body of Process, with the lock held
LockedProcess(g) ==
    /\ conc.pc[g] = "locked"
    /\ conc.call[g].op = "Process"
    /\ \E st \in StatusResults \cup {NotAsked}, lk \in LinkResults \cup {NotAsked} :
            Process(Obj(conc.call[g].obj), st, lk)
    /\ conc' = [conc EXCEPT !.pc[g] = "unlock"]
    /\ UNCHANGED <<calls, replayVars>>

\* the body of AddChild, with the lock held: the parent's id and one child of
\* the loop per step
LockedAddChild(g) ==
    /\ conc.pc[g] = "locked"
    /\ conc.call[g].op = "AddChild"
    /\ LET parent == Obj(conc.call[g].obj)
           children == conc.call[g].children
           i == conc.i[g]
           uid == accessorUID(parent)
           cid == childID(Obj(children[i]))
           returns(err) ==
               /\ ret' = [NoCall EXCEPT !.op = "AddChild", !.obj = parent.key,
                                        !.children = children, !.err = err]
               /\ conc' = [conc EXCEPT !.pc[g] = "unlock"]
               /\ UNCHANGED edges
       IN  IF uid.err # Nil THEN returns(uid.err)
           ELSE IF i > Len(children) THEN returns(Nil)
           ELSE IF cid.err # Nil THEN returns(cid.err)
           ELSE /\ edges' = Put(edges, uid.value,
                                AppendEdge(Lookup(edges, uid.value, <<>>), cid.value))
                /\ conc' = [conc EXCEPT !.i[g] = i + 1]
                /\ UNCHANGED ret
    /\ UNCHANGED <<nodes, groupPods, podGroupIDs, podStats, podNodes>>
    /\ UNCHANGED <<historyVars, calls, replayVars>>

\* the body of Component, with the lock held
LockedComponent(g) ==
    /\ conc.pc[g] = "locked"
    /\ conc.call[g].op = "Component"
    /\ Component(conc.call[g].obj)
    /\ conc' = [conc EXCEPT !.pc[g] = "unlock"]
    /\ UNCHANGED <<calls, replayVars>>

\* Reset, first statement: c.edges = make(map[string][]string)
ResetEdges(g) ==
    /\ conc.pc[g] = "start"
    /\ conc.call[g].op = "Reset"
    /\ edges' = EmptyMap
    /\ conc' = [conc EXCEPT !.pc[g] = "reset_nodes"]
    /\ UNCHANGED <<nodes, groupPods, podGroupIDs, podStats, podNodes>>
    /\ UNCHANGED <<ret, historyVars, calls, replayVars>>

\* Reset, second statement: c.nodes = make(map[string]component.Node)
ResetNodes(g) ==
    /\ conc.pc[g] = "reset_nodes"
    /\ nodes' = EmptyMap
    /\ ret' = [NoCall EXCEPT !.op = "Reset"]
    /\ processed' = {}
    /\ conc' = [conc EXCEPT !.pc[g] = "done"]
    /\ UNCHANGED <<edges, groupPods, podGroupIDs, podStats, podNodes, absorbed>>
    /\ UNCHANGED <<calls, replayVars>>

NextConcurrent ==
    \E g \in Goroutines :
        \/ Lock(g)
        \/ Unlock(g)
        \/ LockedProcess(g)
        \/ LockedAddChild(g)
        \/ LockedComponent(g)
        \/ ResetEdges(g)
        \/ ResetNodes(g)

SpecConcurrent == InitConcurrent /\ [][NextConcurrent]_vars

\* goroutine g is inside its call: between its first and its last access to the
\* collector's maps
InCall(g) == conc.pc[g] \in {"locked", "unlock", "reset_nodes"}

\* the edges an AddChild call leaves on a collector without edges
EdgesOfCall(call) ==
    LET uid == accessorUID(Obj(call.obj))
        list == AddChildren(<<>>, [i \in 1..Len(call.children) |->
                                        Obj(call.children[i])]).list
    IN  IF uid.err # Nil \/ list = <<>> THEN EmptyMap ELSE Put(EmptyMap, uid.value, list)

\* C13: no goroutine is inside a call while another one is, and when an AddChild
\* and a Reset have both returned the edges are those of one of the two serial
\* orders: none, or all the edges of the AddChild call
C13_MutualExclusion ==
    /\ \A g, h \in DOMAIN conc.pc : g # h => ~(InCall(g) /\ InCall(h))
    /\ \A g, h \in DOMAIN conc.pc :
            /\ conc.pc[g] = "done" /\ conc.pc[h] = "done"
            /\ conc.call[g].op = "AddChild" /\ conc.call[h].op = "Reset"
            => edges \in {EmptyMap, EdgesOfCall(conc.call[g])}


\* the group id and name the claim gives to pod o
GroupIDOf(o) == IF o.hasController THEN "pods-" \o o.controller.UID ELSE o.UID
GroupNameOf(o) == IF o.hasController THEN o.controller.Name \o " pods" ELSE o.Name

\* C14: the group of a pod depends on the pod alone: in every state a pod absorbed
\* into a group is recorded under "pods-<controller id>", or under its own id when
\* it has no controller, the node of that group is named "<controller name> pods",
\* or as the pod, and pods of the same controller are in the same group
C14_GroupIdentityPure ==
    /\ \A k \in absorbed :
            LET o == Obj(k)
            IN  /\ o.UID \in DOMAIN podGroupIDs
                /\ podGroupIDs[o.UID] = GroupIDOf(o)
                /\ GroupIDOf(o) \in DOMAIN podNodes
                /\ GroupIDOf(o) \in DOMAIN nodes => nodes[GroupIDOf(o)].Name = GroupNameOf(o)
    /\ \A j, k \in absorbed :
            Obj(j).hasController /\ Obj(k).hasController
            /\ Obj(j).controller.UID = Obj(k).controller.UID
            => podGroupIDs[Obj(j).UID] = podGroupIDs[Obj(k).UID]
    /\ ret.op = "AddChild" /\ ret.err = Nil =>
            \A i \in 1..Len(ret.children) :
                Grouped(Obj(ret.children[i])) =>
                    Contains(GroupIDOf(Obj(ret.children[i])), edges[Obj(ret.obj).UID])

C14_Witness ==
    /\ absorbed = {"P1", "P2", "P3"}
    /\ podGroupIDs["p1"] = "pods-r1" /\ podGroupIDs["p2"] = "pods-r1"
    /\ podGroupIDs["p3"] = "p3"
    /\ nodes["pods-r1"].Name = "rs pods" /\ nodes["p3"].Name = "podc"


\* C15: with grouping, after Process of d1, r1, p1 and p2 (the pods' status
\* readable) and AddChild d1->r1, r1->p1, r1->p2 in any order, Component returns
\* exactly the nodes d1, r1 and pods-r1 and exactly the edges d1->r1 and
\* r1->pods-r1, and the aggregate of pods-r1 lists the pods p1 and p2
C15_PodsCollapse ==
    /\ groupPods /\ ret.op = "Component" /\ pending = {} /\ plan # NoPlan
    /\ plan.status["P1"].err = Nil /\ plan.status["P2"].err = Nil
    => /\ DOMAIN ret.rv.nodes = {"d1", "r1", "pods-r1"}
       /\ DOMAIN ret.rv.edges = {"d1", "r1"}
       /\ ret.rv.edges["d1"] = <<[node |-> "r1", type |-> "explicit"]>>
       /\ ret.rv.edges["r1"] = <<[node |-> "pods-r1", type |-> "explicit"]>>
       /\ DOMAIN podNodes["pods-r1"] = {P1.Name, P2.Name}
       /\ ret.rv.nodes["pods-r1"].Details[1] = PodStatusRef("pods-r1")

C15_Witness ==
    /\ groupPods /\ ret.op = "Component" /\ pending = {} /\ plan # NoPlan
    /\ plan.status["P1"].err = Nil /\ plan.status["P2"].err = Nil
    /\ DOMAIN ret.rv.nodes = {"d1", "r1", "pods-r1"}
    /\ "r1" \in DOMAIN ret.rv.edges /\ Len(ret.rv.edges["r1"]) = 1


\* C16: Component called on an empty accumulator, one just constructed or just
\* reset, returns a graph without nodes and edges whose selected id is the id
\* it was called with
C16_EmptyAssemblesEmpty ==
    [][ ret.op \in {"NewCollector", "Reset"} /\ ret'.op = "Component"
        => /\ ret'.rv.nodes = EmptyMap
           /\ ret'.rv.edges = EmptyMap
           /\ ret'.rv.selected = ret'.selected ]_vars


\* the first child of the list whose id cannot be read, 0 if there is none
FirstUnreadable(children) ==
    LET bad == {i \in 1..Len(children) : ~Obj(children[i]).meta}
    IN  IF bad = {} THEN 0 ELSE CHOOSE i \in bad : \A j \in bad : i <= j

\* C17: AddChild with a parent whose id cannot be read returns an error and
\* leaves the edges as they are; AddChild whose k-th child is the first whose id
\* cannot be read returns an error, the parent's list is its old list followed
\* by the new targets among children 1..k-1, each once, and no other list changes
C17_AddChildBestEffort ==
    [][ ret'.op = "AddChild" =>
        LET parent == Obj(ret'.obj)
            k == FirstUnreadable(ret'.children)
            old == Lookup(edges, parent.UID, <<>>)
            new == Lookup(edges', parent.UID, <<>>)
            before == {NodeIDOf(Obj(ret'.children[i])) : i \in 1..(k - 1)}
        IN  /\ ~parent.meta => ret'.err # Nil /\ edges' = edges
            /\ parent.meta /\ k > 0 =>
                  /\ ret'.err # Nil
                  /\ SubSeq(new, 1, Len(old)) = old
                  /\ Range(new) = Range(old) \cup before
                  /\ Len(new) = Len(old) + Cardinality(before \ Range(old))
                  /\ \A p \in (DOMAIN edges \cup DOMAIN edges') \ {parent.UID} :
                        p \in DOMAIN edges /\ p \in DOMAIN edges' /\ edges'[p] = edges[p] ]_vars

C17_Witness ==
    /\ ret.op = "AddChild" /\ ret.obj = "R1" /\ ret.children = <<"R1", "X1", "P1">>
    /\ ret.err # Nil
    /\ edges = Put(EmptyMap, "r1", <<"r1">>)


\* C18: a Component call leaves the nodes, every parent's edge list with its
\* children in their insertion order, the pod counts, the aggregates and the
\* pod-to-group mapping as they were before the call
C18_ComponentReadOnly ==
    [][ ret'.op = "Component"
        => /\ nodes' = nodes
           /\ edges' = edges
           /\ podStats' = podStats
           /\ podNodes' = podNodes
           /\ podGroupIDs' = podGroupIDs ]_vars


\* C19: a successful Process(o) registers its node under the group id of o when o
\* is a grouped pod and under o's own id otherwise, a successful AddChild records
\* that same id as the edge target of child o, and so Component emits every
\* recorded edge to an object processed since the last Reset
C19_SameIdBothSides ==
    [][ /\ ret'.op = "Process" /\ ret'.created =>
              /\ NodeIDOf(Obj(ret'.obj)) \in DOMAIN nodes'
              /\ DOMAIN nodes' = DOMAIN nodes \cup {NodeIDOf(Obj(ret'.obj))}
        /\ ret'.op = "AddChild" /\ ret'.err = Nil =>
              LET pid == Obj(ret'.obj).UID
                  targets == {NodeIDOf(Obj(ret'.children[i])) : i \in 1..Len(ret'.children)}
              IN  Range(Lookup(edges', pid, <<>>)) = Range(Lookup(edges, pid, <<>>)) \cup targets
        /\ ret'.op = "Component" =>
              \A p \in DOMAIN edges : \A k \in processed :
                  Contains(NodeIDOf(Obj(k)), edges[p])
                  => <<p, NodeIDOf(Obj(k))>> \in EdgePairs(ret'.rv) ]_vars

C19_Witness ==
    /\ ret.op = "Component" /\ "P1" \in processed
    /\ "r1" \in DOMAIN edges /\ Contains(NodeIDOf(P1), edges["r1"])
    /\ <<"r1", NodeIDOf(P1)>> \in EdgePairs(ret.rv)


\* C20: no Process call changes the edges, and a Process call that registers no
\* node, its node creation skipped or failed, leaves the nodes, the aggregates
\* and the pod-to-group mapping as they were and changes at most the pod count of
\* the controller of a grouped pod, which it raises by one
C20_FailedProcessKeepsState ==
    [][ ret'.op = "Process" =>
        LET o == Obj(ret'.obj)
        IN  /\ edges' = edges
            /\ ~ret'.created =>
                  /\ nodes' = nodes
                  /\ podNodes' = podNodes
                  /\ podGroupIDs' = podGroupIDs
                  /\ podStats' = IF Grouped(o) /\ o.hasController
                                 THEN Put(podStats, o.controller.UID,
                                          Lookup(podStats, o.controller.UID, 0) + 1)
                                 ELSE podStats ]_vars

C20_Witness ==
    /\ ret.op = "Process" /\ ret.obj = "P1" /\ ~ret.created
    /\ ret.status # NotAsked /\ ret.status.err # Nil
    /\ podStats = Put(EmptyMap, "r1", 1)
    /\ podNodes = EmptyMap /\ podGroupIDs = EmptyMap /\ nodes = EmptyMap

====
